---- MODULE Spec2Model ----
(***************************************************************************)
(* DriftWise (SplitKit): the balances engine (computeNetByUser,            *)
(* suggestSettlements), the allocation helpers (allocateProportional,      *)
(* allocateEqual, allocatePercent) and the handlers that feed them.        *)
(*                                                                         *)
(* Money.  A monetary amount is an integer number of mills (a tenth of a   *)
(* cent, 1/1000 of the currency unit): 1.00 is 1000, one cent is 10.       *)
(* Math.round(v*100)/100 is then rounding to the nearest multiple of 10,   *)
(* halves towards +infinity, and Math.round(v*100) the same in cents.      *)
(* The amounts stored in expense and settlement records are whole cents    *)
(* (Expense and ExpenseShare are built with toFixed(2), settlements from   *)
(* rounded suggestions); the total handed to allocateProportional is the   *)
(* raw form amount and may be any number of mills.  Binary floating-point  *)
(* noise below a mill is not modelled.                                     *)
(*                                                                         *)
(* JavaScript numbers.  A balance is <<n>> for the number n and <<>> for   *)
(* NaN, which is what `undefined + amount` evaluates to.                   *)
(***************************************************************************)
EXTENDS Integers, Sequences, FiniteSets, TLC

VARIABLES
    group,        \* the Group shown by GroupView: [id, members]
    expenses,     \* db.expenses
    settlements,  \* db.settlements
    lastOp,       \* the handler that produced the current db
    memberIds,    \* allocateProportional: argument memberIds
    weights,      \* allocateProportional: argument weights
    totalAmount,  \* allocateProportional: argument totalAmount (mills)
    out,          \* allocateProportional: the returned mapping
    pc            \* position of the allocation call: "idle", "call", and
                  \* after the return "done" (allocateProportional),
                  \* "equal" (allocateEqual) or "percent" (allocatePercent)

VARIABLES
    form,         \* AddExpenseForm: the useState values of one mounted form
    submitted,    \* AddExpenseForm: the expense handed to onSubmit, if any
    server,       \* CloudGroupView: version of the group's rows on the server
    reloads,      \* CloudGroupView: the fetches that are in flight
    view,         \* CloudGroupView: component state, effects and channels
    ui,           \* GroupView: delId and lastDeleted
    toasts        \* App: the action toasts pushAction has shown

vars == <<group, expenses, settlements, lastOp,
          memberIds, weights, totalAmount, out, pc,
          form, submitted, server, reloads, view, ui, toasts>>

dbVars == <<group, expenses, settlements, lastOp>>
allocVars == <<memberIds, weights, totalAmount, out, pc>>
formVars == <<form, submitted>>
cloudVars == <<server, reloads, view>>
localVars == <<ui, toasts>>

-----------------------------------------------------------------------------
(* Bounds *)

MaxExpenses == 2       \* stored expenses of the three-member database
MaxSettlements == 1    \* stored settlements of the three-member database
MaxPayments == 3       \* stored settlements of the five-member database
MaxWeight == 4         \* weights range over 0..MaxWeight
MaxTotal == 60         \* totals range over -MaxTotal..MaxTotal mills
MaxReloads == 2        \* sbGroupBundle calls of one CloudGroupView
MaxVersion == 1        \* changes of the group's rows on the server
MaxEffects == 2        \* runs of the CloudGroupView effect

-----------------------------------------------------------------------------
(* Generic helpers *)

SeqsUpTo(S, n) == UNION {[1..k -> S] : k \in 0..n}

Range(s) == {s[i] : i \in DOMAIN s}

RECURSIVE SumSeq(_)
SumSeq(s) == IF s = <<>> THEN 0 ELSE Head(s) + SumSeq(Tail(s))

Min(a, b) == IF a < b THEN a ELSE b

-----------------------------------------------------------------------------
(* JavaScript number semantics used by the engine *)

NaN == <<>>

Num(n) == <<n>>

IsNum(v) == v # NaN

\* a + b on numbers; NaN is absorbing
JsAdd(a, b) == IF a = NaN \/ b = NaN THEN NaN ELSE Num(a[1] + b[1])

\* Math.round(v*100)/100 with v in mills: nearest cent, halves up
Round2(v) == 10 * ((v + 5) \div 10)

JsRound2(a) == IF a = NaN THEN NaN ELSE Num(Round2(a[1]))

\* Math.round(totalAmount * 100): mills to an integer number of cents
RoundToCents(v) == (v + 5) \div 10

-----------------------------------------------------------------------------
(* Balances engine: computeNetByUser *)

\* variant: the groupId filter is missing
OfAnyGroup(g, records) == records

\* x => x.groupId === group.id
OfGroup(g, records) == SelectSeq(records, LAMBDA x : x.groupId = g.id)

\* variant: the last member is not initialised
InitNetDropLast(g) ==
    LET ms == SubSeq(g.members, 1, Len(g.members) - 1)
    IN  [keys |-> ms, val |-> [k \in {ms[i] : i \in DOMAIN ms} |-> <<0>>]]

\* const net = {}; group.members.forEach(m => net[m.id] = 0)
\* A mapping is its keys in insertion order (Object.keys / Object.entries
\* order) and its values.
InitNet(g) ==
    [keys |-> g.members, val |-> [k \in Range(g.members) |-> Num(0)]]

\* variant: an absent key reads as 0 (net[k] = (net[k] || 0) + d)
PlusAtDefaultZero(net, k, d) ==
    IF k \in DOMAIN net.val
    THEN [net EXCEPT !.val[k] = JsAdd(@, Num(d))]
    ELSE [keys |-> Append(net.keys, k), val |-> net.val @@ (k :> Num(d))]

\* net[k] += d.  A key that is absent reads as undefined, undefined + d is
\* NaN, and the assignment creates the key.
PlusAt(net, k, d) ==
    IF k \in DOMAIN net.val
    THEN [net EXCEPT !.val[k] = JsAdd(@, Num(d))]
    ELSE [keys |-> Append(net.keys, k), val |-> net.val @@ (k :> NaN)]

\* for (const s of e.shares) net[s.userId] -= s.amount
RECURSIVE ApplyShares(_, _)
ApplyShares(net, shares) ==
    IF shares = <<>> THEN net
    ELSE ApplyShares(PlusAt(net, Head(shares).userId, -Head(shares).amount),
                     Tail(shares))

\* variant: the payer is debited instead of credited
ApplyExpenseDebitPayer(net, e) ==
    ApplyShares(PlusAt(net, e.payerId, -e.amount), e.shares)

\* variant: the payer's balance is assigned (net[e.payerId] = e.amount)
ApplyExpensePayerAssigned(net, e) ==
    ApplyShares(IF e.payerId \in DOMAIN net.val
                THEN [net EXCEPT !.val[e.payerId] = Num(e.amount)]
                ELSE [keys |-> Append(net.keys, e.payerId),
                      val |-> net.val @@ (e.payerId :> Num(e.amount))],
                e.shares)

\* net[e.payerId] += e.amount; then the shares
ApplyExpense(net, e) ==
    ApplyShares(PlusAt(net, e.payerId, e.amount), e.shares)

RECURSIVE ApplyExpenses(_, _)
ApplyExpenses(net, es) ==
    IF es = <<>> THEN net
    ELSE ApplyExpenses(ApplyExpense(net, Head(es)), Tail(es))

\* variant: both parties are credited
ApplySettlementBothCredit(net, s) ==
    PlusAt(PlusAt(net, s.fromUser, s.amount), s.toUser, s.amount)

\* variant: the direction of the payment is reversed
ApplySettlementReversed(net, s) ==
    PlusAt(PlusAt(net, s.fromUser, -s.amount), s.toUser, s.amount)

\* variant: the source's balance is assigned (net[s.fromUser] = s.amount)
ApplySettlementAssigned(net, s) ==
    PlusAt(IF s.fromUser \in DOMAIN net.val
           THEN [net EXCEPT !.val[s.fromUser] = Num(s.amount)]
           ELSE [keys |-> Append(net.keys, s.fromUser),
                 val |-> net.val @@ (s.fromUser :> Num(s.amount))],
           s.toUser, -s.amount)

\* net[s.fromUser] += s.amount; net[s.toUser] -= s.amount
ApplySettlement(net, s) ==
    PlusAt(PlusAt(net, s.fromUser, s.amount), s.toUser, -s.amount)

RECURSIVE ApplySettlements(_, _)
ApplySettlements(net, ss) ==
    IF ss = <<>> THEN net
    ELSE ApplySettlements(ApplySettlement(net, Head(ss)), Tail(ss))

\* for (const k of Object.keys(net)) net[k] = Math.round(net[k]*100)/100
RoundNet(net) ==
    [keys |-> net.keys, val |-> [k \in DOMAIN net.val |-> JsRound2(net.val[k])]]

computeNetByUser(g, es, ss) ==
    RoundNet(ApplySettlements(ApplyExpenses(InitNet(g), OfGroup(g, es)),
                              OfGroup(g, ss)))

-----------------------------------------------------------------------------
(* Balances engine: suggestSettlements *)

\* variant: the sign of the debtor threshold is lost (v < 0.009)
DebtorsSignDropped(net) ==
    LET ks == SelectSeq(net.keys,
                        LAMBDA k : IsNum(net.val[k]) /\ net.val[k][1] < 9)
    IN  [i \in DOMAIN ks |-> [id |-> ks[i], amt |-> -net.val[ks[i]][1]]]

\* if (v < -0.009) debtors.push({id, amt: -v}), in Object.entries order.
\* Comparisons with NaN are false.
Debtors(net) ==
    LET ks == SelectSeq(net.keys,
                        LAMBDA k : IsNum(net.val[k]) /\ net.val[k][1] < -9)
    IN  [i \in DOMAIN ks |-> [id |-> ks[i], amt |-> -net.val[ks[i]][1]]]

\* variant: the creditor threshold has the wrong sign (v > -0.009)
CreditorsIncludeSettled(net) ==
    LET ks == SelectSeq(net.keys,
                        LAMBDA k : IsNum(net.val[k]) /\ net.val[k][1] > -9)
    IN  [i \in DOMAIN ks |-> [id |-> ks[i], amt |-> net.val[ks[i]][1]]]

\* if (v > 0.009) creditors.push({id, amt: v})
Creditors(net) ==
    LET ks == SelectSeq(net.keys,
                        LAMBDA k : IsNum(net.val[k]) /\ net.val[k][1] > 9)
    IN  [i \in DOMAIN ks |-> [id |-> ks[i], amt |-> net.val[ks[i]][1]]]

\* variant: the comparator is a.amt - b.amt (ascending)
RECURSIVE InsertByAmtAscending(_, _)
InsertByAmtAscending(x, sorted) ==
    IF sorted = <<>> THEN <<x>>
    ELSE IF Head(sorted).amt <= x.amt
         THEN <<Head(sorted)>> \o InsertByAmtAscending(x, Tail(sorted))
         ELSE <<x>> \o sorted

\* Array.prototype.sort((a,b) => b.amt - a.amt): descending and stable
RECURSIVE InsertByAmt(_, _)
InsertByAmt(x, sorted) ==
    IF sorted = <<>> THEN <<x>>
    ELSE IF Head(sorted).amt >= x.amt
         THEN <<Head(sorted)>> \o InsertByAmt(x, Tail(sorted))
         ELSE <<x>> \o sorted

\* variant: the lists are left in Object.entries order
SortByAmtNone(s) == s

RECURSIVE SortByAmt(_)
SortByAmt(s) ==
    IF s = <<>> THEN <<>>
    ELSE InsertByAmt(s[Len(s)], SortByAmt(SubSeq(s, 1, Len(s) - 1)))

\* variant: both pointers advance after every transfer
RECURSIVE GreedyLoopAdvanceBoth(_, _, _, _, _)
GreedyLoopAdvanceBoth(debtors, creditors, i, j, acc) ==
    IF ~(i <= Len(debtors) /\ j <= Len(creditors)) THEN acc
    ELSE LET d   == debtors[i]
             c   == creditors[j]
             pay == Min(d.amt, c.amt)
         IN  GreedyLoopAdvanceBoth(debtors, creditors, i + 1, j + 1,
                                   Append(acc, [from |-> d.id, to |-> c.id,
                                                amount |-> Round2(pay)]))

\* while (i < debtors.length && j < creditors.length) { ... }
RECURSIVE GreedyLoop(_, _, _, _, _)
GreedyLoop(debtors, creditors, i, j, acc) ==
    IF ~(i <= Len(debtors) /\ j <= Len(creditors)) THEN acc
    ELSE LET d   == debtors[i]
             c   == creditors[j]
             pay == Min(d.amt, c.amt)
             d2  == [d EXCEPT !.amt = @ - pay]
             c2  == [c EXCEPT !.amt = @ - pay]
         IN  GreedyLoop([debtors EXCEPT ![i] = d2],
                        [creditors EXCEPT ![j] = c2],
                        IF d2.amt < 10 THEN i + 1 ELSE i,
                        IF c2.amt < 10 THEN j + 1 ELSE j,
                        Append(acc, [from |-> d.id, to |-> c.id,
                                     amount |-> Round2(pay)]))

\* variant: debtors and creditors are exchanged
suggestSettlementsSwapped(g, es, ss) ==
    LET net == computeNetByUser(g, es, ss)
    IN  GreedyLoop(SortByAmt(Creditors(net)), SortByAmt(Debtors(net)),
                   1, 1, <<>>)

suggestSettlements(g, es, ss) ==
    LET net == computeNetByUser(g, es, ss)
    IN  GreedyLoop(SortByAmt(Debtors(net)), SortByAmt(Creditors(net)),
                   1, 1, <<>>)

\* What a call of suggestSettlements writes to the console: the body has no
\* console call, and `return out` hands back the transfers only.
suggestLog(g, es, ss) == <<>>

-----------------------------------------------------------------------------
(* Allocation helpers *)

\* variant: among equal remainders the later index comes first
RECURSIVE InsertByFracLaterFirst(_, _)
InsertByFracLaterFirst(x, sorted) ==
    IF sorted = <<>> THEN <<x>>
    ELSE IF Head(sorted).frac > x.frac
         THEN <<Head(sorted)>> \o InsertByFracLaterFirst(x, Tail(sorted))
         ELSE <<x>> \o sorted

\* raw.map((v,i) => ({i, frac: v - Math.floor(v)})).sort((a,b) => b.frac - a.frac)
\* descending and stable.  frac is kept as its numerator over sumW.
RECURSIVE InsertByFrac(_, _)
InsertByFrac(x, sorted) ==
    IF sorted = <<>> THEN <<x>>
    ELSE IF Head(sorted).frac >= x.frac
         THEN <<Head(sorted)>> \o InsertByFrac(x, Tail(sorted))
         ELSE <<x>> \o sorted

\* variant: the remainders are left in list order
SortByFracNone(s) == s

RECURSIVE SortByFrac(_)
SortByFrac(s) ==
    IF s = <<>> THEN <<>>
    ELSE InsertByFrac(s[Len(s)], SortByFrac(SubSeq(s, 1, Len(s) - 1)))

\* variant: the leftover cents are dropped
DistributeNone(base, fracIdx, k, remainder) == base

\* for (let k = 0; k < fracIdx.length && remainder > 0; k++)
\*     { base[fracIdx[k].i] += 1; remainder--; }
RECURSIVE Distribute(_, _, _, _)
Distribute(base, fracIdx, k, remainder) ==
    IF ~(k <= Len(fracIdx) /\ remainder > 0) THEN base
    ELSE Distribute([base EXCEPT ![fracIdx[k].i] = @ + 1],
                    fracIdx, k + 1, remainder - 1)

\* memberIds.forEach((id, idx) => out[id] = base[idx]/100): a later index
\* overwrites an earlier one with the same id.  Amounts are returned in mills.
ToMapping(ids, base) ==
    [id \in Range(ids) |->
        LET last == CHOOSE i \in DOMAIN ids :
                        /\ ids[i] = id
                        /\ \A j \in DOMAIN ids : ids[j] = id => j <= i
        IN  base[last] * 10]

\* variant: in the fallback the first listed member is given the total
\* (out[memberIds[0]] = totalCents/100; with no member the key is undefined)
allocateProportionalFirstTakesAll(ids, ws, total) ==
    LET totalCents == RoundToCents(total)
        sumW       == SumSeq(ws)
    IN  IF sumW <= 0 \/ totalCents = 0
        THEN IF ids = <<>> THEN [id \in {"undefined"} |-> totalCents * 10]
             ELSE [id \in Range(ids) |->
                      IF id = ids[1] THEN totalCents * 10 ELSE 0]
        ELSE LET base0     == [i \in DOMAIN ws |-> (totalCents * ws[i]) \div sumW]
                 remainder == totalCents - SumSeq(base0)
                 fracIdx   == SortByFrac(
                                [i \in DOMAIN ws |->
                                    [i |-> i, frac |-> (totalCents * ws[i]) % sumW]])
             IN  ToMapping(ids, Distribute(base0, fracIdx, 1, remainder))

\* variant: Math.trunc in place of Math.floor
allocateProportionalTrunc(ids, ws, total) ==
    LET totalCents == RoundToCents(total)
        sumW       == SumSeq(ws)
        Trunc(n)   == IF n >= 0 THEN n \div sumW ELSE -((-n) \div sumW)
    IN  IF sumW <= 0 \/ totalCents = 0
        THEN [id \in Range(ids) |-> 0]
        ELSE LET base0     == [i \in DOMAIN ws |-> Trunc(totalCents * ws[i])]
                 remainder == totalCents - SumSeq(base0)
                 fracIdx   == SortByFrac(
                                [i \in DOMAIN ws |->
                                    [i |-> i,
                                     frac |-> totalCents * ws[i]
                                              - sumW * Trunc(totalCents * ws[i])]])
             IN  ToMapping(ids, Distribute(base0, fracIdx, 1, remainder))

allocateProportional(ids, ws, total) ==
    LET totalCents == RoundToCents(total)
        sumW       == SumSeq(ws)
    IN  IF sumW <= 0 \/ totalCents = 0
        THEN [id \in Range(ids) |-> 0]
        ELSE LET base0     == [i \in DOMAIN ws |-> (totalCents * ws[i]) \div sumW]
                 remainder == totalCents - SumSeq(base0)
                 fracIdx   == SortByFrac(
                                [i \in DOMAIN ws |->
                                    [i |-> i, frac |-> (totalCents * ws[i]) % sumW]])
             IN  ToMapping(ids, Distribute(base0, fracIdx, 1, remainder))

\* variant: every member gets the rounded quotient total / n
allocateEqualQuotient(ids, total) ==
    IF ids = <<>> THEN <<>>
    ELSE [id \in Range(ids) |-> Round2(total \div Len(ids))]

\* memberIds.map(() => 1)
allocateEqual(ids, total) ==
    allocateProportional(ids, [i \in DOMAIN ids |-> 1], total)

\* variant: each member gets perc[i] hundredths of the total
allocatePercentOfHundred(ids, perc, total) ==
    [id \in Range(ids) |->
        LET i == CHOOSE i \in DOMAIN ids : ids[i] = id
        IN  Round2((total * perc[i]) \div 100)]

allocatePercent(ids, perc, total) == allocateProportional(ids, perc, total)

-----------------------------------------------------------------------------
(* Stored data: what loadDB can return *)

G3 == [id |-> "g", members |-> <<"a", "b", "c">>]
G5 == [id |-> "g", members |-> <<"a", "b", "c", "d", "e">>]

Share(u, amt) == [userId |-> u, amount |-> amt]

Expense(gid, payer, amt, shares) ==
    [groupId |-> gid, payerId |-> payer, amount |-> amt, shares |-> shares]

Settlement(gid, f, t, amt) ==
    [groupId |-> gid, fromUser |-> f, toUser |-> t, amount |-> amt]

\* Expense records of the three-member database.  "x" is an identifier that
\* is no member of the group, "h" another group.
ExpenseInputs ==
    { Expense("g", "a", 100000, <<Share("a", 50000), Share("b", 50000)>>),
      Expense("g", "a", 99000,
              <<Share("a", 33000), Share("b", 33000), Share("c", 33000)>>),
      Expense("g", "a", 60000, <<Share("a", 30000), Share("b", 30000)>>),
      Expense("g", "b", 40000, <<Share("a", 20000), Share("b", 20000)>>),
      Expense("g", "b", 10, <<Share("a", 10)>>),
      Expense("g", "b", 100000, <<Share("c", 50000), Share("c", 50000)>>),
      Expense("g", "a", 100000, <<Share("a", 50000), Share("b", 40000)>>),
      Expense("g", "x", 100000, <<Share("a", 50000), Share("b", 50000)>>),
      Expense("g", "a", 100000, <<Share("a", 50000), Share("x", 50000)>>),
      Expense("h", "a", 100000, <<Share("a", 50000), Share("b", 50000)>>) }

SettlementInputs ==
    { Settlement("g", "b", "a", 50000),
      Settlement("g", "c", "a", 33000),
      Settlement("g", "x", "a", 50000),
      Settlement("g", "a", "x", 33000),
      Settlement("h", "b", "a", 50000) }

\* Settlement records of the five-member database: d and e have paid a, b, c
PaymentInputs ==
    { Settlement("g", "d", t, amt) : t \in {"a", "b", "c"}, amt \in {2000, 3000} }
    \cup { Settlement("g", "e", t, 3000) : t \in {"a", "b", "c"} }

-----------------------------------------------------------------------------
(* The local database and GroupView *)

\* no AddExpenseForm is mounted
FormIdle ==
    /\ form = <<>>
    /\ submitted = <<>>

\* no CloudGroupView is shown
CloudIdle ==
    /\ server = 0
    /\ reloads = {}
    /\ view = <<>>

\* no expense is being deleted and no toast is shown
LocalIdle ==
    /\ ui = <<>>
    /\ toasts = <<>>

ViewsIdle == FormIdle /\ CloudIdle /\ LocalIdle

AllocIdle ==
    /\ memberIds = <<>>
    /\ weights = <<>>
    /\ totalAmount = 0
    /\ out = <<>>
    /\ pc = "idle"

\* loadDB: the stored JSON is returned as it is
Init ==
    /\ \/ /\ group = G3
          /\ expenses \in SeqsUpTo(ExpenseInputs, MaxExpenses)
          /\ settlements \in SeqsUpTo(SettlementInputs, MaxSettlements)
       \/ /\ group = G5
          /\ expenses = <<>>
          /\ settlements \in SeqsUpTo(PaymentInputs, MaxPayments)
    /\ lastOp = "load"
    /\ AllocIdle
    /\ ViewsIdle

\* The values GroupView renders from
nets == computeNetByUser(group, expenses, settlements)
sugg == suggestSettlements(group, expenses, settlements)

\* Settle up, 'Record settlements': shown only when sugg.length > 0
RecordSettlements ==
    /\ Len(sugg) > 0
    /\ settlements' = settlements \o
          [i \in DOMAIN sugg |->
              Settlement(group.id, sugg[i].from, sugg[i].to, sugg[i].amount)]
    /\ lastOp' = "record"
    /\ UNCHANGED <<group, expenses>>
    /\ UNCHANGED <<allocVars, formVars, cloudVars, localVars>>

Next == RecordSettlements

Spec == Init /\ [][Next]_vars

-----------------------------------------------------------------------------
(* A call of allocateProportional, allocateEqual or allocatePercent *)

IdLists == {<<>>, <<"a">>, <<"a", "b">>, <<"a", "b", "c">>}

Totals == (-MaxTotal .. MaxTotal) \cup {1000, 10000}

InitAlloc ==
    /\ group = G3
    /\ expenses = <<>>
    /\ settlements = <<>>
    /\ lastOp = "load"
    /\ memberIds \in IdLists
    /\ weights \in [DOMAIN memberIds -> 0 .. MaxWeight]
    /\ totalAmount \in Totals
    /\ out = <<>>
    /\ pc = "call"
    /\ ViewsIdle

Allocate ==
    /\ pc = "call"
    /\ out' = allocateProportional(memberIds, weights, totalAmount)
    /\ pc' = "done"
    /\ UNCHANGED <<memberIds, weights, totalAmount>>
    /\ UNCHANGED <<dbVars, formVars, cloudVars, localVars>>

\* allocateEqual(memberIds, totalAmount): no weights are passed
AllocateEqual ==
    /\ pc = "call"
    /\ out' = allocateEqual(memberIds, totalAmount)
    /\ pc' = "equal"
    /\ UNCHANGED <<memberIds, weights, totalAmount>>
    /\ UNCHANGED <<dbVars, formVars, cloudVars, localVars>>

\* allocatePercent(memberIds, perc, totalAmount): weights holds perc
AllocatePercent ==
    /\ pc = "call"
    /\ out' = allocatePercent(memberIds, weights, totalAmount)
    /\ pc' = "percent"
    /\ UNCHANGED <<memberIds, weights, totalAmount>>
    /\ UNCHANGED <<dbVars, formVars, cloudVars, localVars>>

NextAlloc == Allocate \/ AllocateEqual \/ AllocatePercent

SpecAlloc == InitAlloc /\ [][NextAlloc]_vars

-----------------------------------------------------------------------------
(* Properties of the balances engine, checked under Spec *)

Members == Range(group.members)

\* the records of the displayed group, found without the engine's filter
RECURSIVE OwnRecords(_)
OwnRecords(records) ==
    IF records = <<>> THEN <<>>
    ELSE IF Head(records).groupId = group.id
         THEN <<Head(records)>> \o OwnRecords(Tail(records))
         ELSE OwnRecords(Tail(records))

OwnExpenses == OwnRecords(expenses)
OwnSettlements == OwnRecords(settlements)

\* what member m owes for expense e: the sum of m's shares
OwedBy(m, e) ==
    SumSeq([i \in DOMAIN e.shares |->
               IF e.shares[i].userId = m THEN e.shares[i].amount ELSE 0])

ShareTotal(e) == SumSeq([i \in DOMAIN e.shares |-> e.shares[i].amount])

\* The data-model invariants the engine does not enforce: every expense of
\* the group is paid by a member, shared among members, with shares that sum
\* to its amount, and every settlement of the group is between members.
WellFormed ==
    /\ \A i \in DOMAIN OwnExpenses :
          LET e == OwnExpenses[i]
          IN  /\ e.payerId \in Members
              /\ \A k \in DOMAIN e.shares : e.shares[k].userId \in Members
              /\ ShareTotal(e) = e.amount
    /\ \A i \in DOMAIN OwnSettlements :
          /\ OwnSettlements[i].fromUser \in Members
          /\ OwnSettlements[i].toUser \in Members

\* the sum of all entries of a mapping, as JavaScript adds them
RECURSIVE SumEntries(_, _)
SumEntries(keys, val) ==
    IF keys = <<>> THEN <<0>>
    ELSE LET rest == SumEntries(Tail(keys), val)
             v    == val[Head(keys)]
         IN  IF v = <<>> \/ rest = <<>> THEN <<>> ELSE <<v[1] + rest[1]>>

Abs(n) == IF n < 0 THEN -n ELSE n

\* C1 (as stated): for all groups, expense lists and settlement lists the
\* entries of computeNetByUser's result sum to 0.
ZeroSumAlways == LET n == nets IN SumEntries(n.keys, n.val) = <<0>>

\* C1 (amended): when every expense of the group has shares that sum to its
\* amount and every expense and settlement of the group references members
\* only, the entries of computeNetByUser's result sum to 0.
ZeroSumWellFormed ==
    WellFormed => LET n == nets IN SumEntries(n.keys, n.val) = <<0>>

ZeroSumWitness ==
    /\ WellFormed
    /\ Len(OwnExpenses) = 2
    /\ Len(OwnSettlements) = 1
    /\ \E m \in Members : nets.val[m] # <<0>>

AllMembersSettled ==
    LET n == nets
    IN  \A m \in Members : n.val[m] # <<>> /\ Abs(n.val[m][1]) <= 10

SingleExpense ==
    /\ Len(OwnExpenses) = 1
    /\ Len(OwnSettlements) = 0

\* C5: with a single expense of the group and no settlement, every member's
\* balance is the expense amount if the member paid it, minus the member's
\* shares; a member who neither paid nor shares stays at 0.
SingleExpenseNet ==
    SingleExpense =>
        LET n == nets
        IN  \A m \in Members :
            n.val[m] =
                <<(IF OwnExpenses[1].payerId = m THEN OwnExpenses[1].amount ELSE 0)
                   - OwedBy(m, OwnExpenses[1])>>

\* 99 paid by a, split 33/33/33: a +66, b -33, c -33
SingleExpenseWitness ==
    /\ SingleExpense
    /\ OwnExpenses[1].amount = 99000
    /\ nets.val["a"] = <<66000>>
    /\ nets.val["b"] = <<-33000>>
    /\ nets.val["c"] = <<-33000>>

LastSettlement == settlements[Len(settlements)]

NetsBeforeLast ==
    computeNetByUser(group, expenses, SubSeq(settlements, 1, Len(settlements) - 1))

LastIsBetweenMembers ==
    /\ Len(settlements) > 0
    /\ LastSettlement.groupId = group.id
    /\ LastSettlement.fromUser \in Members
    /\ LastSettlement.toUser \in Members
    /\ LastSettlement.fromUser # LastSettlement.toUser

\* C6: a settlement of amount x from member f to member t of the group,
\* added to the data, raises f's balance by exactly x, lowers t's by exactly
\* x and leaves every other member's balance unchanged.
SettlementDelta ==
    LastIsBetweenMembers =>
        LET n == nets
            b == NetsBeforeLast
        IN  \A m \in Members :
            LET before == b.val[m]
                delta  == (IF m = LastSettlement.fromUser
                              THEN LastSettlement.amount ELSE 0)
                          - (IF m = LastSettlement.toUser
                                THEN LastSettlement.amount ELSE 0)
            IN  /\ before # <<>>
                /\ n.val[m] = <<before[1] + delta>>

\* 100 paid by a split 50/50, then b pays a 50: both at zero
SettlementWitness ==
    /\ LastIsBetweenMembers
    /\ lastOp = "load"
    /\ NetsBeforeLast.val["a"] = <<50000>>
    /\ NetsBeforeLast.val["b"] = <<-50000>>
    /\ nets.val["a"] = <<0>>
    /\ nets.val["b"] = <<0>>

\* C7: the result has an entry for every member of the group, and with no
\* expense and no settlement of the group every member's balance is 0.
EveryMemberHasEntry ==
    LET n == nets
    IN  /\ Members \subseteq DOMAIN n.val
        /\ Members \subseteq Range(n.keys)
        /\ (Len(OwnExpenses) = 0 /\ Len(OwnSettlements) = 0) =>
               \A m \in Members : n.val[m] = <<0>>

BaselineWitness ==
    /\ Len(OwnExpenses) = 0
    /\ Len(OwnSettlements) = 0
    /\ Len(expenses) = 2
    /\ Len(settlements) = 1
    /\ \A m \in Members : nets.val[m] = <<0>>

\* C8 (as stated): a reference to an identifier outside the member list is
\* ignored, so the result has entries for members only and every entry is a
\* number.
UnknownRefsIgnored ==
    LET n == nets
    IN  \A k \in DOMAIN n.val : k \in Members /\ n.val[k] # <<>>

\* C9: records of other groups have no effect: computeNetByUser and
\* suggestSettlements return what they return with those records removed.
GroupFilter ==
    /\ nets = computeNetByUser(group, OwnExpenses, OwnSettlements)
    /\ sugg = suggestSettlements(group, OwnExpenses, OwnSettlements)

GroupFilterWitness ==
    /\ Len(OwnExpenses) = 1
    /\ Len(expenses) = 2
    /\ Len(OwnSettlements) = 0
    /\ Len(settlements) = 1
    /\ Len(sugg) > 0

\* the members whose balance in val is not zero
Unsettled(val) == {m \in Members : val[m] # <<0>>}

RECURSIVE SumOver(_, _)
SumOver(S, val) ==
    IF S = {} THEN 0
    ELSE LET m == CHOOSE m \in S : TRUE
         IN  val[m][1] + SumOver(S \ {m}, val)

\* the largest number of parts in a partition of S into sets of members
\* whose balances sum to zero
RECURSIVE MaxZeroParts(_, _)
MaxZeroParts(S, val) ==
    IF S = {} THEN 0
    ELSE LET m     == CHOOSE m \in S : TRUE
             parts == {T \in SUBSET S : m \in T /\ SumOver(T, val) = 0}
             best  == {1 + MaxZeroParts(S \ T, val) : T \in parts}
         IN  CHOOSE n \in best : \A k \in best : k <= n

\* A set of transfers that zeroes every balance exists exactly when the
\* balances sum to zero.  The transfers of such a set connect the unsettled
\* members into components, each with balances summing to zero and, having
\* k members, at least k - 1 transfers; k - 1 always suffice.  The fewest
\* transfers are therefore the unsettled members minus the largest number of
\* zero-sum parts they split into.
CanBeZeroed(val) ==
    /\ \A m \in Members : val[m] # <<>>
    /\ SumOver(Unsettled(val), val) = 0

MinTransfers(val) ==
    Cardinality(Unsettled(val)) - MaxZeroParts(Unsettled(val), val)

\* C10 (as stated): no set of transfers that brings every balance to zero
\* has fewer transfers than the list suggestSettlements returns.
SuggestionsMinimal ==
    LET val == nets.val
    IN  CanBeZeroed(val) => Len(sugg) <= MinTransfers(val)

\* C10 (amended): when at most four members have a non-zero balance, no set
\* of transfers that brings every balance to zero has fewer transfers than
\* the list suggestSettlements returns.
SuggestionsMinimalUpToFour ==
    LET val == nets.val
    IN  (CanBeZeroed(val) /\ Cardinality(Unsettled(val)) <= 4) =>
            Len(sugg) <= MinTransfers(val)

\* two debtors and two creditors that pair off: two transfers
MinimalWitness ==
    LET val == nets.val
    IN  /\ CanBeZeroed(val)
        /\ Cardinality(Unsettled(val)) = 4
        /\ Cardinality(Range(Debtors(nets))) = 2
        /\ Len(sugg) = 2
        /\ MinTransfers(val) = 2

-----------------------------------------------------------------------------
(* Properties of suggestSettlements, checked under Spec *)

IsDebtor(val, m) == val[m] # <<>> /\ val[m][1] < -9
IsCreditor(val, m) == val[m] # <<>> /\ val[m][1] > 9

\* the original debt and credit of a member, from the balances
Debt(val, m) == -val[m][1]
Credit(val, m) == val[m][1]

\* what m pays and receives in the first k transfers of s
PaidUpTo(m, s, k) ==
    SumSeq([i \in 1..k |-> IF s[i].from = m THEN s[i].amount ELSE 0])
ReceivedUpTo(m, s, k) ==
    SumSeq([i \in 1..k |-> IF s[i].to = m THEN s[i].amount ELSE 0])

\* the members left with a cent or more that no transfer of s covers
UnmatchedRemainder(val, s) ==
    {m \in DOMAIN val :
        \/ IsDebtor(val, m) /\ Debt(val, m) - PaidUpTo(m, s, Len(s)) >= 10
        \/ IsCreditor(val, m) /\ Credit(val, m) - ReceivedUpTo(m, s, Len(s)) >= 10}

\* C11: when one of the two lists is exhausted while a member of the other
\* still has a non-zero remaining amount, suggestSettlements reports the
\* unmatched remainder.
RemainderReported ==
    LET val == nets.val
        s   == sugg
    IN  UnmatchedRemainder(val, s) # {} =>
            suggestLog(group, expenses, settlements) # <<>>

\* a balance that is zero within 0.009
IsSettled(val, m) == val[m] # <<>> /\ Abs(val[m][1]) <= 9

\* C18: every returned transfer goes from a member whose balance is negative
\* to a member whose balance is positive, has a strictly positive amount and
\* from # to; a member whose balance is zero appears in no transfer.
TransfersWellDirected ==
    LET val == nets.val
        s   == sugg
    IN  /\ \A k \in DOMAIN s :
              /\ s[k].from \in DOMAIN val
              /\ s[k].to \in DOMAIN val
              /\ val[s[k].from] # <<>> /\ val[s[k].from][1] < 0
              /\ val[s[k].to] # <<>> /\ val[s[k].to][1] > 0
              /\ s[k].amount > 0
              /\ s[k].from # s[k].to
        /\ \A m \in DOMAIN val :
              IsSettled(val, m) =>
                  \A k \in DOMAIN s : s[k].from # m /\ s[k].to # m

\* two transfers are suggested while a third member is settled
WellDirectedWitness ==
    LET val == nets.val
    IN  /\ lastOp = "load"
        /\ Len(sugg) = 2
        /\ \E m \in Members : IsSettled(val, m)

NumDebtors(val) == Cardinality({m \in DOMAIN val : IsDebtor(val, m)})
NumCreditors(val) == Cardinality({m \in DOMAIN val : IsCreditor(val, m)})

\* after transfer k its payer has paid all its debt or its receiver has
\* received all its credit
ClearsOneParty(val, s, k) ==
    \/ Debt(val, s[k].from) - PaidUpTo(s[k].from, s, k) < 10
    \/ Credit(val, s[k].to) - ReceivedUpTo(s[k].to, s, k) < 10

\* C19: with D debtors and C creditors, both non-empty, the greedy loop ends
\* after at most D + C - 1 iterations, each of which fully clears at least
\* one party.
GreedyLoopBound ==
    LET val == nets.val
        s   == sugg
    IN  (NumDebtors(val) > 0 /\ NumCreditors(val) > 0) =>
            /\ Len(s) >= 1
            /\ Len(s) <= NumDebtors(val) + NumCreditors(val) - 1
            /\ \A k \in DOMAIN s : ClearsOneParty(val, s, k)

\* two debtors and two creditors that need all three transfers
GreedyLoopWitness ==
    LET val == nets.val
    IN  /\ NumDebtors(val) = 2
        /\ NumCreditors(val) = 2
        /\ Len(sugg) = 3

\* C20: the first transfer is from a member with the largest debt to a
\* member with the largest credit, for the smaller of the two; along the
\* list the payers' original debts and the receivers' original credits
\* never increase.
LargestPairFirst ==
    LET val == nets.val
        s   == sugg
    IN  s # <<>> =>
            /\ \A m \in DOMAIN val :
                  IsDebtor(val, m) => Debt(val, m) <= Debt(val, s[1].from)
            /\ \A m \in DOMAIN val :
                  IsCreditor(val, m) => Credit(val, m) <= Credit(val, s[1].to)
            /\ s[1].amount = Min(Debt(val, s[1].from), Credit(val, s[1].to))
            /\ \A k \in 1..(Len(s) - 1) :
                  /\ Debt(val, s[k].from) >= Debt(val, s[k + 1].from)
                  /\ Credit(val, s[k].to) >= Credit(val, s[k + 1].to)

\* three transfers whose last payer owes less than the first and whose last
\* receiver is owed less than the first
LargestPairWitness ==
    LET val == nets.val
        s   == sugg
    IN  /\ Len(s) = 3
        /\ Debt(val, s[1].from) > Debt(val, s[3].from)
        /\ Credit(val, s[1].to) > Credit(val, s[3].to)

Perms(s) == {[i \in DOMAIN s |-> s[p[i]]] : p \in Permutations(DOMAIN s)}

\* C23: for every stored database the mapping computeNetByUser returns is
\* the same for every permutation of the expense list, of the settlement
\* list and of the shares inside an expense.
OrderIndependent ==
    lastOp = "load" =>
        LET val == nets.val
        IN  /\ \A es \in Perms(expenses) :
                  computeNetByUser(group, es, settlements).val = val
            /\ \A ss \in Perms(settlements) :
                  computeNetByUser(group, expenses, ss).val = val
            /\ \A i \in DOMAIN expenses :
                  \A sh \in Perms(expenses[i].shares) :
                      computeNetByUser(group,
                                       [expenses EXCEPT ![i].shares = sh],
                                       settlements).val = val

\* two different expenses, the first with three shares, and a settlement
OrderWitness ==
    /\ lastOp = "load"
    /\ Len(expenses) = 2
    /\ expenses[1] # expenses[2]
    /\ Len(expenses[1].shares) = 3
    /\ Len(settlements) = 1
    /\ settlements[1].groupId = group.id

\* member m's balance when record e, or record s, is the only one
AloneExpense(m, e) == computeNetByUser(group, <<e>>, <<>>).val[m][1]
AloneSettlement(m, s) == computeNetByUser(group, <<>>, <<s>>).val[m][1]

\* C24: each member's balance over the lists equals the sum of the member's
\* balances computed from each record alone.
Additive ==
    LET val == nets.val
    IN  \A m \in Members :
            val[m] =
              <<SumSeq([i \in DOMAIN expenses |-> AloneExpense(m, expenses[i])])
                + SumSeq([i \in DOMAIN settlements |->
                             AloneSettlement(m, settlements[i])])>>

\* a pays 60 split 30/30 and b pays 40 split 20/20: a +10, b -10
AdditiveWitness ==
    /\ expenses = <<Expense("g", "a", 60000,
                            <<Share("a", 30000), Share("b", 30000)>>),
                    Expense("g", "b", 40000,
                            <<Share("a", 20000), Share("b", 20000)>>)>>
    /\ settlements = <<>>
    /\ nets.val["a"] = <<10000>>
    /\ nets.val["b"] = <<-10000>>

\* C27: no returned transfer has a from or a to outside the group's member
\* list, also when records of the group reference other identifiers.
TransfersAmongMembers ==
    LET s == sugg
    IN  \A k \in DOMAIN s : s[k].from \in Members /\ s[k].to \in Members

\* a record of the group references an identifier that is no member, and
\* transfers are suggested
AmongMembersWitness ==
    /\ DOMAIN nets.val # Members
    /\ Len(sugg) > 0

-----------------------------------------------------------------------------
(* Properties of allocateProportional, checked under SpecAlloc *)

SumW == SumSeq(weights)

OutTotal == SumSeq([i \in DOMAIN memberIds |-> out[memberIds[i]]])

WholeCents(v) == v % 10 = 0

\* C3 (as stated): for all member lists, all weight lists and all totals of
\* whole cents, every returned amount is whole cents and the amounts sum
\* exactly to the total.
ExactAlways ==
    (pc = "done" /\ WholeCents(totalAmount)) =>
        /\ \A i \in DOMAIN memberIds : WholeCents(out[memberIds[i]])
        /\ OutTotal = totalAmount

\* C3 (amended): for all member lists, all weight lists with a positive sum
\* and all totals of whole cents, every returned amount is whole cents and
\* the amounts sum exactly to the total.
ExactPositiveWeights ==
    (pc = "done" /\ WholeCents(totalAmount) /\ SumW > 0) =>
        /\ \A i \in DOMAIN memberIds : WholeCents(out[memberIds[i]])
        /\ OutTotal = totalAmount

\* 10.00 among a, b, c with equal weights: 3.34, 3.33, 3.33
ExactWitness ==
    /\ pc = "done"
    /\ totalAmount = 10000
    /\ weights = <<1, 1, 1>>
    /\ out = [a |-> 3340, b |-> 3330, c |-> 3330]

\* member i's amount is less than one cent away from total * w[i] / sumW
NearIdeal(i) ==
    Abs(out[memberIds[i]] * SumW - totalAmount * weights[i]) < 10 * SumW

\* member i's cents are the floor of totalCents * w[i] / sumW, or one more
FloorOrNext(i) ==
    LET cents == out[memberIds[i]] \div 10
        ideal == ((totalAmount \div 10) * weights[i]) \div SumW
    IN  cents = ideal \/ cents = ideal + 1

\* C4 (as stated): for non-negative weights with a positive sum, each
\* member's amount differs from total * weight / sumOfWeights by strictly
\* less than one cent.
FairAlways ==
    (pc = "done" /\ SumW > 0) => \A i \in DOMAIN memberIds : NearIdeal(i)

\* C4 (amended): for non-negative weights with a positive sum and a total of
\* whole cents, each member's amount differs from total * weight /
\* sumOfWeights by strictly less than one cent: its cents are the floor of
\* the ideal cent share or the floor plus one.
FairWholeCents ==
    (pc = "done" /\ SumW > 0 /\ WholeCents(totalAmount)) =>
        \A i \in DOMAIN memberIds : NearIdeal(i) /\ FloorOrNext(i)

\* 0.02 with weights 2, 1, 1: ideal cents 1, 0.5, 0.5; the spare cent goes
\* to b, never to a
FairWitness ==
    /\ pc = "done"
    /\ totalAmount = 20
    /\ weights = <<2, 1, 1>>
    /\ out = [a |-> 10, b |-> 10, c |-> 0]

-----------------------------------------------------------------------------
(* Fallback, negative totals and the two wrappers, checked under SpecAlloc *)

\* Math.round(total * 100) is 0: the total lies in [-0.005, 0.005)
RoundsToZeroCents(total) == total >= -5 /\ total < 5

AllZero == [id \in Range(memberIds) |-> 0]

\* C12: if the sum of the weights is <= 0 or the total rounds to 0 cents,
\* allocateProportional returns the mapping that gives every listed member
\* exactly 0.
ZeroFallback ==
    (pc = "done" /\ (SumW <= 0 \/ RoundsToZeroCents(totalAmount))) =>
        out = AllZero

\* 10.00 among a, b, c with weights 0, 0, 0: everybody gets 0
ZeroFallbackWitness ==
    /\ pc = "done"
    /\ totalAmount = 10000
    /\ weights = <<0, 0, 0>>
    /\ out = [a |-> 0, b |-> 0, c |-> 0]

\* C13: for a negative total of whole cents and non-negative weights with a
\* positive sum, no returned amount is positive, the amounts sum exactly to
\* the total and each is within one cent of its ideal proportional share.
NegativeTotals ==
    (/\ pc = "done"
     /\ totalAmount < 0
     /\ WholeCents(totalAmount)
     /\ \A i \in DOMAIN weights : weights[i] >= 0
     /\ SumW > 0) =>
        /\ \A i \in DOMAIN memberIds : out[memberIds[i]] <= 0
        /\ OutTotal = totalAmount
        /\ \A i \in DOMAIN memberIds : NearIdeal(i)

\* -0.05 with weights 2, 1, 1: floors -3, -2, -2 and two spare cents for
\* b and c
NegativeTotalsWitness ==
    /\ pc = "done"
    /\ totalAmount = -50
    /\ weights = <<2, 1, 1>>
    /\ out = [a |-> -30, b |-> -10, c |-> -10]

\* the mapping allocateProportional returns for the arguments of the call
ProportionalResult(ws) == allocateProportional(memberIds, ws, totalAmount)

\* C14 (as stated): allocatePercent returns the mapping allocateProportional
\* returns for the same arguments, and when the percentages have a positive
\* sum different from 100 the amounts sum exactly to the total and each is
\* within one cent of total * p[i] / sum(p).
PercentAlways ==
    pc = "percent" =>
        /\ out = ProportionalResult(weights)
        /\ (SumW > 0 /\ SumW # 100) =>
               /\ OutTotal = totalAmount
               /\ \A i \in DOMAIN memberIds : NearIdeal(i)

\* C14 (amended): allocatePercent returns the mapping allocateProportional
\* returns for the same arguments, and when the percentages have a positive
\* sum different from 100 and the total is a whole number of cents the
\* amounts sum exactly to the total and each is within one cent of
\* total * p[i] / sum(p).
PercentWholeCents ==
    pc = "percent" =>
        /\ out = ProportionalResult(weights)
        /\ (SumW > 0 /\ SumW # 100 /\ WholeCents(totalAmount)) =>
               /\ OutTotal = totalAmount
               /\ \A i \in DOMAIN memberIds : NearIdeal(i)

\* 1.00 with percentages 3 and 1: 0.75 and 0.25
PercentWitness ==
    /\ pc = "percent"
    /\ totalAmount = 1000
    /\ weights = <<3, 1>>
    /\ out = [a |-> 750, b |-> 250]

AtMostOneCentApart ==
    \A i, j \in DOMAIN memberIds :
        Abs(out[memberIds[i]] - out[memberIds[j]]) <= 10

Ones == [i \in DOMAIN memberIds |-> 1]

\* C15 (as stated): allocateEqual returns what allocateProportional returns
\* with every weight 1; the amounts sum exactly to the total and any two
\* members' amounts differ by at most one cent.
EqualAlways ==
    pc = "equal" =>
        /\ out = ProportionalResult(Ones)
        /\ OutTotal = totalAmount
        /\ AtMostOneCentApart

\* C15 (amended): allocateEqual returns what allocateProportional returns
\* with every weight 1; with at least one member and a total of whole cents
\* the amounts sum exactly to the total, and any two members' amounts
\* differ by at most one cent.
EqualWholeCents ==
    pc = "equal" =>
        /\ out = ProportionalResult(Ones)
        /\ (memberIds # <<>> /\ WholeCents(totalAmount)) =>
               OutTotal = totalAmount
        /\ AtMostOneCentApart

\* 10.00 among a, b, c: 3.34, 3.33, 3.33
EqualWitness ==
    /\ pc = "equal"
    /\ totalAmount = 10000
    /\ memberIds = <<"a", "b", "c">>
    /\ out = [a |-> 3340, b |-> 3330, c |-> 3330]

\* C16: with zero members allocateProportional, allocateEqual and
\* allocatePercent return the empty mapping for any total.
NoMembersEmpty ==
    (pc \in {"done", "equal", "percent"} /\ memberIds = <<>>) =>
        DOMAIN out = {}

\* allocateEqual([], 10.00) is {}
NoMembersWitness ==
    /\ pc = "equal"
    /\ memberIds = <<>>
    /\ totalAmount = 10000
    /\ DOMAIN out = {}

\* the ideal share of member i in cents: its floor and the numerator of its
\* fractional remainder over SumW
TotalCents == RoundToCents(totalAmount)
FloorShare(i) == (TotalCents * weights[i]) \div SumW
FracShare(i) == (TotalCents * weights[i]) % SumW

\* the cents member i received on top of its floored share
Extra(i) == out[memberIds[i]] \div 10 - FloorShare(i)

-----------------------------------------------------------------------------
(* AddExpenseForm: one mounted form, from its first render to its submit *)

G2 == [id |-> "g", members |-> <<"a", "b">>]

\* const ids = group.members.map(m => m.id)
Ids == group.members

\* what the user can type
Titles == {"", "Dinner"}
FormAmounts == {0, 1000, 1006}
EntryValues == {0, 500}
PercValues == {25, 75}
WeightValues == {0, 3}
Modes == {"equal", "amounts", "percent", "weights"}

Max(a, b) == IF a > b THEN a ELSE b

\* Number(v.toFixed(2)): the nearest cent
ToFixed2(v) == IF v >= 0 THEN Round2(v) ELSE -Round2(-v)

\* 100 / Math.max(1, ids.length), exact for the member counts used here
BasePercent(ids) == 100 \div Max(1, Len(ids))

\* the useState initialisers
InitialForm(g) ==
    [title          |-> "",
     amount         |-> 0,
     payer          |-> IF g.members = <<>> THEN "" ELSE g.members[1],
     mode           |-> "equal",
     amounts        |-> allocateEqual(g.members, 0),
     perc           |-> [id \in Range(g.members) |-> BasePercent(g.members)],
     weights        |-> [id \in Range(g.members) |-> 1],
     amountsTouched |-> FALSE,
     percTouched    |-> FALSE]

\* weights[id] || 1
OrOne(w) == IF w = 0 THEN 1 ELSE w

\* ids.map(id => weights[id] || 1), also the values the weight inputs show
ShownWeights(f, ids) == [i \in DOMAIN ids |-> OrOne(f.weights[ids[i]])]

\* ids.map(id => perc[id] || 0), the values the percent inputs show
ShownPercents(f, ids) == [i \in DOMAIN ids |-> f.perc[ids[i]]]

\* the useEffect on [amount, ids.join(','), mode]
DefaultsEffect(f, ids) ==
    LET f1 == IF ~f.amountsTouched /\ f.mode = "amounts"
              THEN [f EXCEPT !.amounts = allocateEqual(ids, f.amount)]
              ELSE f
        f2 == IF ~f.percTouched /\ f.mode = "percent"
              THEN [f1 EXCEPT !.perc =
                        [id \in Range(ids) |-> BasePercent(ids)]]
              ELSE f1
        f3 == IF f.mode = "equal"
              THEN [f2 EXCEPT !.amounts = allocateEqual(ids, f.amount)]
              ELSE f2
    IN  IF f.mode = "weights"
        THEN [f3 EXCEPT !.amounts =
                  allocateProportional(ids, ShownWeights(f, ids), f.amount)]
        ELSE f3

\* ids.reduce((a, id) => a + (amounts[id] || 0), 0)
TotalAmts(f, ids) == SumSeq([i \in DOMAIN ids |-> f.amounts[ids[i]]])

\* title.trim().length > 0 && amount > 0 && Math.abs(totalAmts - amount) < 0.01
Valid(f, ids) ==
    /\ f.title # ""
    /\ f.amount > 0
    /\ Abs(TotalAmts(f, ids) - f.amount) < 10

InitForm ==
    /\ group = G2
    /\ expenses = <<>>
    /\ settlements = <<>>
    /\ lastOp = "load"
    /\ AllocIdle
    /\ form = InitialForm(G2)
    /\ submitted = <<>>
    /\ CloudIdle
    /\ LocalIdle

FormFrame == UNCHANGED <<dbVars, allocVars, cloudVars, localVars>>

\* onChange of the title input
SetTitle(t) ==
    /\ form # <<>>
    /\ form' = [form EXCEPT !.title = t]
    /\ UNCHANGED submitted
    /\ FormFrame

\* onChange of the amount input, and the effect its change triggers
SetAmount(v) ==
    /\ form # <<>>
    /\ v # form.amount
    /\ form' = DefaultsEffect([form EXCEPT !.amount = v], Ids)
    /\ UNCHANGED submitted
    /\ FormFrame

\* onChange of the payer select
SetPayer(u) ==
    /\ form # <<>>
    /\ form' = [form EXCEPT !.payer = u]
    /\ UNCHANGED submitted
    /\ FormFrame

\* onClick of a button of the segmented control, and the effect
SetMode(m) ==
    /\ form # <<>>
    /\ m # form.mode
    /\ form' = DefaultsEffect([form EXCEPT !.mode = m], Ids)
    /\ UNCHANGED submitted
    /\ FormFrame

\* amounts editor: setAmountsTouched(true); setAmounts(a => ({...a, [id]: v}))
EditAmount(id, v) ==
    /\ form # <<>>
    /\ form.mode = "amounts"
    /\ form' = [form EXCEPT !.amountsTouched = TRUE, !.amounts[id] = v]
    /\ UNCHANGED submitted
    /\ FormFrame

\* percent editor: setPercTouched(true); setPerc(...); setAmounts(allocatePercent(...))
EditPercent(id, v) ==
    /\ form # <<>>
    /\ form.mode = "percent"
    /\ LET p    == Max(0, v)
           pArr == [i \in DOMAIN Ids |->
                       IF Ids[i] = id THEN p ELSE form.perc[Ids[i]]]
       IN  form' = [form EXCEPT !.percTouched = TRUE,
                                !.perc[id] = p,
                                !.amounts = allocatePercent(Ids, pArr, form.amount)]
    /\ UNCHANGED submitted
    /\ FormFrame

\* weights editor: setWeights(...); setAmounts(allocateProportional(...))
EditWeight(id, v) ==
    /\ form # <<>>
    /\ form.mode = "weights"
    /\ LET w    == Max(0, v)
           wArr == [i \in DOMAIN Ids |->
                       IF Ids[i] = id THEN w ELSE OrOne(form.weights[Ids[i]])]
       IN  form' = [form EXCEPT !.weights[id] = w,
                                !.amounts = allocateProportional(Ids, wArr, form.amount)]
    /\ UNCHANGED submitted
    /\ FormFrame

\* the shares and the expense submit builds
SubmitShares(f, ids) ==
    [i \in DOMAIN ids |-> Share(ids[i], ToFixed2(f.amounts[ids[i]]))]

SubmitExpense(f, g) ==
    Expense(g.id, f.payer, ToFixed2(f.amount), SubmitShares(f, g.members))

\* 'Add expense', enabled when valid; onSubmit closes the modal, which
\* unmounts the form
Submit ==
    /\ form # <<>>
    /\ Valid(form, Ids)
    /\ submitted' = <<SubmitExpense(form, group)>>
    /\ form' = <<>>
    /\ FormFrame

NextForm ==
    \/ \E t \in Titles : SetTitle(t)
    \/ \E v \in FormAmounts : SetAmount(v)
    \/ \E u \in Range(Ids) : SetPayer(u)
    \/ \E m \in Modes : SetMode(m)
    \/ \E id \in Range(Ids), v \in EntryValues : EditAmount(id, v)
    \/ \E id \in Range(Ids), v \in PercValues : EditPercent(id, v)
    \/ \E id \in Range(Ids), v \in WeightValues : EditWeight(id, v)
    \/ Submit

SpecForm == InitForm /\ [][NextForm]_vars

-----------------------------------------------------------------------------
(* Properties of AddExpenseForm, checked under SpecForm *)

\* C25: an expense the form submits has one share per group member, and its
\* shares sum exactly to its amount.
SubmittedSharesExact ==
    submitted # <<>> =>
        LET e == submitted[1]
        IN  /\ [i \in DOMAIN e.shares |-> e.shares[i].userId] = group.members
            /\ ShareTotal(e) = e.amount

\* the amounts submit would send for each member
WouldSubmit == [id \in Range(Ids) |-> ToFixed2(form.amounts[id])]

\* C26: whenever submit is enabled, in percent mode the submitted shares are
\* allocatePercent of the percentages shown, in weights mode
\* allocateProportional of the weights shown, in equal mode allocateEqual.
ModeConsistent ==
    (form # <<>> /\ Valid(form, Ids)) =>
        /\ form.mode = "percent" =>
              WouldSubmit = allocatePercent(Ids, ShownPercents(form, Ids),
                                            form.amount)
        /\ form.mode = "weights" =>
              WouldSubmit = allocateProportional(Ids, ShownWeights(form, Ids),
                                                 form.amount)
        /\ form.mode = "equal" =>
              WouldSubmit = allocateEqual(Ids, form.amount)

-----------------------------------------------------------------------------
(* CloudGroupView: the effect, the realtime channel and the reloads *)

\* A fetch in flight.  effect is the run of the effect whose `active` flag
\* the continuation reads (0 for the two handlers, which read none); seq is
\* the position of its sbGroupBundle call among all such calls (0 while
\* fetchData still waits for the group's name and currency); data is the
\* server version the bundle was read at.
Fetch(kind, effect, seq, stage) ==
    [kind |-> kind, effect |-> effect, seq |-> seq, stage |-> stage, data |-> 0]

\* variant: the continuations do not test the flag
ActiveAlways(r) == TRUE

\* let active = true ... return () => { active = false; ... }
Active(r) == r.effect \notin view.cleaned

\* the component as first rendered: bundle and groupMeta are null, the
\* effect has run once, fetchData is waiting and the channel is subscribed
InitCloud ==
    /\ group = G3
    /\ expenses = <<>>
    /\ settlements = <<>>
    /\ lastOp = "load"
    /\ AllocIdle
    /\ FormIdle
    /\ LocalIdle
    /\ server = 0
    /\ reloads = {Fetch("initial", 1, 0, "meta")}
    /\ view = [mounted   |-> TRUE,
               effect    |-> 1,
               cleaned   |-> {},
               channels  |-> {1},
               meta      |-> FALSE,
               bundle    |-> <<>>,
               started   |-> 0,
               bundleSeq |-> 0,
               stale     |-> FALSE,
               lateWrite |-> FALSE,
               dropped   |-> FALSE]

CloudFrame == UNCHANGED <<dbVars, allocVars, formVars, localVars>>

\* setBundle(b) by fetch r.  bundleSeq, stale and lateWrite are history:
\* which call filled the bundle, whether a call overwrote a later one, and
\* whether an effect's fetch wrote after the effect's cleanup.
SetBundle(v, r) ==
    [v EXCEPT !.bundle    = <<r.data>>,
              !.bundleSeq = r.seq,
              !.stale     = @ \/ r.seq < v.bundleSeq,
              !.lateWrite = @ \/ (r.effect # 0 /\ r.effect \in v.cleaned)]

\* fetchData, first await: if (!active) return; setGroupMeta(g); then the
\* call of sbGroupBundle
MetaArrives(r) ==
    /\ r \in reloads
    /\ r.kind = "initial" /\ r.stage = "meta"
    /\ IF Active(r)
       THEN /\ view.started < MaxReloads
            /\ view' = [view EXCEPT
                            !.meta      = TRUE,
                            !.started   = @ + 1,
                            !.lateWrite = @ \/ r.effect \in view.cleaned]
            /\ reloads' = (reloads \ {r})
                  \cup {Fetch("initial", r.effect, view.started + 1, "sent")}
       ELSE /\ view' = [view EXCEPT !.dropped = TRUE]
            /\ reloads' = reloads \ {r}
    /\ UNCHANGED server
    /\ CloudFrame

\* the server reads the group's rows for a call of sbGroupBundle
ServerAnswers(r) ==
    /\ r \in reloads
    /\ r.stage = "sent"
    /\ reloads' = (reloads \ {r})
          \cup {[r EXCEPT !.stage = "answered", !.data = server]}
    /\ UNCHANGED <<server, view>>
    /\ CloudFrame

\* fetchData, second await, and the realtime handlers:
\* if (!active) return; setBundle(b)  /  .then(b => { if (active) setBundle(b) })
EffectBundleArrives(r) ==
    /\ r \in reloads
    /\ r.kind \in {"initial", "realtime"} /\ r.stage = "answered"
    /\ view' = IF Active(r) THEN SetBundle(view, r)
               ELSE [view EXCEPT !.dropped = TRUE]
    /\ reloads' = reloads \ {r}
    /\ UNCHANGED server
    /\ CloudFrame

\* the add-expense and record-settlements handlers:
\* const b = await sbGroupBundle(sb, group.id); setBundle(b).  React
\* keeps no state for a component that was unmounted.
HandlerBundleArrives(r) ==
    /\ r \in reloads
    /\ r.kind \in {"add", "record"} /\ r.stage = "answered"
    /\ view' = IF view.mounted THEN SetBundle(view, r) ELSE view
    /\ reloads' = reloads \ {r}
    /\ UNCHANGED server
    /\ CloudFrame

\* a postgres_changes event on one of the four subscriptions of a channel
\* that is still subscribed: () => sbGroupBundle(sb, id).then(...)
RealtimeEvent(e) ==
    /\ e \in view.channels
    /\ view.started < MaxReloads
    /\ view' = [view EXCEPT !.started = @ + 1]
    /\ reloads' = reloads \cup {Fetch("realtime", e, view.started + 1, "sent")}
    /\ UNCHANGED server
    /\ CloudFrame

\* another client changes the group's rows
ServerChange ==
    /\ server < MaxVersion
    /\ server' = server + 1
    /\ UNCHANGED <<reloads, view>>
    /\ CloudFrame

\* the view is rendered past 'Loading...'
Rendered == view.mounted /\ view.meta /\ view.bundle # <<>>

\* AddExpenseForm onSubmit: await sbAddExpense(...); setOpenAdd(false);
\* then the call of sbGroupBundle
CloudAddExpense ==
    /\ Rendered
    /\ server < MaxVersion
    /\ view.started < MaxReloads
    /\ server' = server + 1
    /\ view' = [view EXCEPT !.started = @ + 1]
    /\ reloads' = reloads \cup {Fetch("add", 0, view.started + 1, "sent")}
    /\ CloudFrame

\* 'Record settlements': await sbRecordSettlements(...); setOpenSettle(false);
\* then the call of sbGroupBundle
CloudRecordSettlements ==
    /\ Rendered
    /\ server < MaxVersion
    /\ view.started < MaxReloads
    /\ server' = server + 1
    /\ view' = [view EXCEPT !.started = @ + 1]
    /\ reloads' = reloads \cup {Fetch("record", 0, view.started + 1, "sent")}
    /\ CloudFrame

\* the component unmounts: return () => { active = false; sb.removeChannel(ch) }
Unmount ==
    /\ view.mounted
    /\ view' = [view EXCEPT !.mounted  = FALSE,
                            !.cleaned  = @ \cup {view.effect},
                            !.channels = @ \ {view.effect}]
    /\ UNCHANGED <<server, reloads>>
    /\ CloudFrame

\* id or sb changes: the cleanup of the old run, then the effect runs again
EffectReruns ==
    /\ view.mounted
    /\ view.effect < MaxEffects
    /\ view' = [view EXCEPT !.effect   = @ + 1,
                            !.cleaned  = @ \cup {view.effect},
                            !.channels = (@ \ {view.effect})
                                         \cup {view.effect + 1}]
    /\ reloads' = reloads \cup {Fetch("initial", view.effect + 1, 0, "meta")}
    /\ UNCHANGED server
    /\ CloudFrame

NextCloud ==
    \/ \E r \in reloads : MetaArrives(r)
    \/ \E r \in reloads : ServerAnswers(r)
    \/ \E r \in reloads : EffectBundleArrives(r)
    \/ \E r \in reloads : HandlerBundleArrives(r)
    \/ \E e \in 1..MaxEffects : RealtimeEvent(e)
    \/ ServerChange
    \/ CloudAddExpense
    \/ CloudRecordSettlements
    \/ Unmount
    \/ EffectReruns

SpecCloud == InitCloud /\ [][NextCloud]_vars

-----------------------------------------------------------------------------
(* Properties of CloudGroupView, checked under SpecCloud *)

\* no call of sbGroupBundle is waiting for its answer or its continuation
NoBundleInFlight == \A r \in reloads : r.stage = "meta"

\* C28: the result of an earlier-started reload never overwrites the bundle
\* set by a later-started one, and once all reloads have finished the
\* bundle shown comes from the most recently started one.
LatestReloadWins ==
    /\ ~view.stale
    /\ (view.mounted /\ view.cleaned = {} /\ view.started > 0
         /\ NoBundleInFlight) =>
            view.bundleSeq = view.started

\* C29: after the cleanup of a run of the effect, nothing fetched by that
\* run's initial load or realtime handlers is written to component state,
\* and the channel the run opened is removed.
CleanupStopsWrites ==
    /\ ~view.lateWrite
    /\ view.channels \cap view.cleaned = {}

\* a run was cleaned up while one of its fetches was in flight, and the
\* fetch has since arrived and been dropped
CleanupWitness ==
    /\ view.cleaned # {}
    /\ view.dropped
    /\ reloads = {}

-----------------------------------------------------------------------------
(* Local GroupView: deleting an expense and the Undo toast *)

\* an Expense with its id
LocalExpense(id, payer, amt, shares) ==
    [id |-> id, groupId |-> "g", payerId |-> payer, amount |-> amt,
     shares |-> shares]

LocalExpenseInputs ==
    { LocalExpense("e1", "a", 60000, <<Share("a", 30000), Share("b", 30000)>>),
      LocalExpense("e2", "b", 40000, <<Share("a", 20000), Share("b", 20000)>>),
      LocalExpense("e3", "a", 99000,
                   <<Share("a", 33000), Share("b", 33000), Share("c", 33000)>>) }

\* stored expenses have distinct ids (uid())
DistinctIds(es) == \A i, j \in DOMAIN es : es[i].id = es[j].id => i = j

\* useState<string|null>(null) and useState<Expense|null>(null): delId is ""
\* for null, lastDeleted is <<>> for null and <<e>> for the expense e
InitLocal ==
    /\ group = G3
    /\ expenses \in {es \in SeqsUpTo(LocalExpenseInputs, 3) :
                         es # <<>> /\ DistinctIds(es)}
    /\ settlements = <<>>
    /\ lastOp = "load"
    /\ AllocIdle
    /\ FormIdle
    /\ CloudIdle
    /\ ui = [delId |-> "", lastDeleted |-> <<>>]
    /\ toasts = <<>>

LocalFrame == UNCHANGED <<allocVars, formVars, cloudVars>>

\* the trash button of expense e: setLastDeleted(e); setDelId(e.id)
ClickDelete(e) ==
    /\ e \in Range(OfGroup(group, expenses))
    /\ ui' = [delId |-> e.id, lastDeleted |-> <<e>>]
    /\ UNCHANGED <<dbVars, toasts>>
    /\ LocalFrame

\* deleteExpense: prev.expenses.filter(e => e.id !== expId)
deleteExpense(es, expId) == SelectSeq(es, LAMBDA x : x.id # expId)

\* onAnimationComplete of the card of e, of the latest render:
\* if (delId === e.id) { deleteExpense(e.id); setDelId(null); pushAction(...) }
\* The Undo callback closes over that render's lastDeleted.  deleted and
\* before are history: the record removed and db.expenses before it.
AnimationComplete(e) ==
    /\ e \in Range(OfGroup(group, expenses))
    /\ ui.delId = e.id
    /\ expenses' = deleteExpense(expenses, e.id)
    /\ ui' = [ui EXCEPT !.delId = ""]
    /\ toasts' = Append(toasts, [captured |-> ui.lastDeleted,
                                 deleted  |-> e,
                                 before   |-> expenses])
    /\ lastOp' = "delete"
    /\ UNCHANGED <<group, settlements>>
    /\ LocalFrame

\* db.expenses after the Undo callback of toast t:
\* if (lastDeleted) setDb(prev => ({...prev, expenses: [...prev.expenses, lastDeleted]}))
UndoExpenses(t) ==
    IF t.captured # <<>> THEN Append(expenses, t.captured[1]) ELSE expenses

RemoveAt(s, i) == SubSeq(s, 1, i - 1) \o SubSeq(s, i + 1, Len(s))

\* 'Undo' on toast i: the callback, setLastDeleted(null) when it restored,
\* and the toast is removed
Undo(i) ==
    /\ i \in DOMAIN toasts
    /\ expenses' = UndoExpenses(toasts[i])
    /\ ui' = IF toasts[i].captured # <<>>
             THEN [ui EXCEPT !.lastDeleted = <<>>] ELSE ui
    /\ toasts' = RemoveAt(toasts, i)
    /\ lastOp' = "undo"
    /\ UNCHANGED <<group, settlements>>
    /\ LocalFrame

\* setTimeout(() => setToasts(t => t.filter(x => x.id !== id)), 5000)
ToastExpires(i) ==
    /\ i \in DOMAIN toasts
    /\ toasts' = RemoveAt(toasts, i)
    /\ lastOp' = "expire"
    /\ UNCHANGED <<group, expenses, settlements, ui>>
    /\ LocalFrame

NextLocal ==
    \/ \E e \in Range(expenses) : ClickDelete(e)
    \/ \E e \in Range(expenses) : AnimationComplete(e)
    \/ \E i \in DOMAIN toasts : Undo(i)
    \/ \E i \in DOMAIN toasts : ToastExpires(i)

SpecLocal == InitLocal /\ [][NextLocal]_vars

-----------------------------------------------------------------------------
(* Properties of the local delete and Undo, checked under SpecLocal *)

\* C30: a deletion removes exactly the deleted expense; Undo on the toast
\* of a deletion puts that same record back, and pressed right after the
\* deletion it brings computeNetByUser back to the balances before it;
\* this also holds when several deletions precede their Undo.
DeleteUndoRoundTrip ==
    /\ lastOp = "delete" =>
          LET t == toasts[Len(toasts)]
          IN  /\ expenses = SelectSeq(t.before, LAMBDA x : x # t.deleted)
              /\ Len(expenses) = Len(t.before) - 1
              /\ computeNetByUser(group, UndoExpenses(t), settlements).val
                    = computeNetByUser(group, t.before, settlements).val
    /\ \A i \in DOMAIN toasts :
          UndoExpenses(toasts[i]) = Append(expenses, toasts[i].deleted)

====
